---- MODULE Spec2Model ----
(***************************************************************************)
(* Model of dynamicsutilities.dtex: the equation formatter that            *)
(* builds one LaTeX string from its arguments and hands it to              *)
(* IPython.display.  Strings are sequences of one-character strings; the   *)
(* backslash character is written "\\".                                    *)
(***************************************************************************)
EXTENDS Integers, Sequences, FiniteSets, TLC

VARIABLES pc, args, i, tex, shown, convlog, outcome, calls

vars == <<pc, args, i, tex, shown, convlog, outcome, calls>>

----------------------------------------------------------------------------
(* Bounds of the exploration.                                              *)

MaxArgs == 3

MaxCalls == 2

----------------------------------------------------------------------------
(* Arguments: a str value, or a SymPy-like object given to mlatex.         *)

Str(s) == [kind |-> "str", val |-> s]

Sym(n) == [kind |-> "sym", val |-> n]

\* the str values tried: '', 'a' and 'b'
Texts == {<<>>, <<"a">>, <<"b">>}

SymNames == {"x*y", "unsupported"}

ArgValues == {Str(s) : s \in Texts} \cup {Sym(n) : n \in SymNames}

ArgLists == UNION {[1..n -> ArgValues] : n \in 0..MaxArgs}

----------------------------------------------------------------------------
(* The pieces of the code.                                                 *)

IsStrAlwaysFalse(arg) == FALSE

\* isinstance(arg, str)
IsStr(arg) == arg.kind = "str"

\* mlatex raises on an object the printer cannot render
MlatexFails(arg) == arg.kind = "sym" /\ arg.val = "unsupported"

\* mlatex(arg): the LaTeX source of the object.  x*y prints as "x y"; a str
\* given to the printer prints as \mathtt{\text{...}}.
Mlatex(arg) ==
    IF arg.kind = "str"
    THEN <<"\\", "m", "a", "t", "h", "t", "t", "{", "\\", "t", "e", "x", "t", "{">>
         \o arg.val \o <<"}", "}">>
    ELSE <<"x", " ", "y">>

\* the literal text that follows ${...}$ in both f-strings: " $\, = \,$ "
SepAfter == <<" ", "$", "\\", ",", " ", "=", " ", "\\", ",", "$", " ">>

PieceNoClosingDollar(frag) == <<"$">> \o frag \o SepAfter

\* f'${frag}$ $\, = \,$ '
Piece(frag) == <<"$">> \o frag \o <<"$">> \o SepAfter

TrimLenPlusOne == 10 + 1

\* the 10 of tex[:-10]
TrimLen == 10

TrimKeepsTail(s) ==
    IF Len(s) > TrimLen THEN SubSeq(s, Len(s) - TrimLen + 1, Len(s)) ELSE s

\* tex[:-10]: everything but the last 10 characters, '' for a shorter string
Trim(s) == IF Len(s) > TrimLen THEN SubSeq(s, 1, Len(s) - TrimLen) ELSE <<>>

----------------------------------------------------------------------------
(* The state machine.                                                      *)

Init ==
    /\ pc = "idle"
    /\ args = <<>>
    /\ i = 1
    /\ tex = <<>>
    /\ shown = <<>>
    /\ convlog = <<>>
    /\ outcome = "none"
    /\ calls = 0

CallKeepsTex(a) ==
    /\ pc \in {"idle", "done"}
    /\ calls < MaxCalls
    /\ calls' = calls + 1
    /\ args' = a
    /\ i' = 1
    /\ shown' = <<>>
    /\ convlog' = <<>>
    /\ outcome' = "none"
    /\ pc' = "loop"
    /\ UNCHANGED tex

\* dtex is entered with its arguments: tex = ''
Call(a) ==
    /\ pc \in {"idle", "done"}
    /\ calls < MaxCalls
    /\ calls' = calls + 1
    /\ args' = a
    /\ i' = 1
    /\ tex' = <<>>
    /\ shown' = <<>>
    /\ convlog' = <<>>
    /\ outcome' = "none"
    /\ pc' = "loop"

LoopTextDisplaysEachTime ==
    /\ pc = "loop"
    /\ i <= Len(args)
    /\ IsStr(args[i])
    /\ tex' = tex \o Piece(args[i].val)
    /\ shown' = Append(shown, tex')
    /\ i' = i + 1
    /\ UNCHANGED <<pc, args, convlog, outcome, calls>>

\* one iteration of the loop on a str argument
LoopText ==
    /\ pc = "loop"
    /\ i <= Len(args)
    /\ IsStr(args[i])
    /\ tex' = tex \o Piece(args[i].val)
    /\ i' = i + 1
    /\ UNCHANGED <<pc, args, shown, convlog, outcome, calls>>

LoopSymSwallowsError ==
    /\ pc = "loop"
    /\ i <= Len(args)
    /\ ~IsStr(args[i])
    /\ convlog' = Append(convlog, args[i])
    /\ tex' = tex \o Piece(IF MlatexFails(args[i]) THEN <<>> ELSE Mlatex(args[i]))
    /\ i' = i + 1
    /\ UNCHANGED <<pc, args, shown, outcome, calls>>

\* one iteration of the loop on any other argument: mlatex is called, and
\* its error, if any, leaves dtex
LoopSym ==
    /\ pc = "loop"
    /\ i <= Len(args)
    /\ ~IsStr(args[i])
    /\ convlog' = Append(convlog, args[i])
    /\ IF MlatexFails(args[i])
       THEN /\ outcome' = "conversion_error"
            /\ pc' = "done"
            /\ UNCHANGED <<tex, i>>
       ELSE /\ tex' = tex \o Piece(Mlatex(args[i]))
            /\ i' = i + 1
            /\ UNCHANGED <<pc, outcome>>
    /\ UNCHANGED <<args, shown, calls>>

\* the loop is over: tex = tex[:-10]
TrimStep ==
    /\ pc = "loop"
    /\ i > Len(args)
    /\ tex' = Trim(tex)
    /\ pc' = "display"
    /\ UNCHANGED <<args, i, shown, convlog, outcome, calls>>

DisplaySkipsEmpty ==
    /\ pc = "display"
    /\ IF tex = <<>>
       THEN /\ outcome' = "returned_None"
            /\ UNCHANGED shown
       ELSE /\ shown' = Append(shown, tex)
            /\ \E ok \in BOOLEAN :
                 outcome' = IF ok THEN "returned_None" ELSE "display_error"
    /\ pc' = "done"
    /\ UNCHANGED <<args, i, tex, convlog, calls>>

\* display(Latex(tex)): the facility renders the string or raises; after it
\* the function ends, with no return statement
Display ==
    /\ pc = "display"
    /\ shown' = Append(shown, tex)
    /\ \E ok \in BOOLEAN :
         outcome' = IF ok THEN "returned_None" ELSE "display_error"
    /\ pc' = "done"
    /\ UNCHANGED <<args, i, tex, convlog, calls>>

Next ==
    \/ \E a \in ArgLists : Call(a)
    \/ LoopText
    \/ LoopSym
    \/ TrimStep
    \/ Display

Spec == Init /\ [][Next]_vars

TypeOK ==
    /\ pc \in {"idle", "loop", "display", "done"}
    /\ args \in ArgLists
    /\ i \in 1..(MaxArgs + 1)
    /\ outcome \in {"none", "returned_None", "conversion_error", "display_error"}
    /\ calls \in 0..MaxCalls
    /\ Len(shown) <= 1

----------------------------------------------------------------------------
(* Vocabulary of the properties.                                           *)

\* the equals-separator `$\, = \,$`
EqSep == <<"$", "\\", ",", " ", "=", " ", "\\", ",", "$">>

\* the separator with the space on either side of it
Joiner == <<" ">> \o EqSep \o <<" ">>

NonText(a) == a.kind # "str"

\* the fragment of an argument: the text itself, or the conversion result
ArgFrag(a) == IF NonText(a) THEN Mlatex(a) ELSE a.val

Delim(a) == <<"$">> \o ArgFrag(a) \o <<"$">>

RECURSIVE Joined(_)
\* the delimited fragments with a separator between consecutive ones
Joined(as) ==
    IF as = <<>> THEN <<>>
    ELSE IF Len(as) = 1 THEN Delim(as[1])
    ELSE Delim(Head(as)) \o Joiner \o Joined(Tail(as))

RECURSIVE Built(_)
\* every delimited fragment followed by a separator
Built(as) ==
    IF as = <<>> THEN <<>> ELSE Delim(Head(as)) \o Joiner \o Built(Tail(as))

RECURSIVE Offset(_, _)
\* the number of characters before the k-th fragment
Offset(as, k) ==
    IF k = 1 THEN 0
    ELSE Offset(as, k - 1) + Len(Delim(as[k - 1])) + Len(Joiner)

RECURSIVE SumFragLen(_)
SumFragLen(as) ==
    IF as = <<>> THEN 0 ELSE Len(ArgFrag(Head(as))) + 2 + SumFragLen(Tail(as))

Starts(s, p) == {k \in 1..(Len(s) - Len(p) + 1) : SubSeq(s, k, k + Len(p) - 1) = p}

Contains(s, p) == Starts(s, p) # {}

Dollars(s) == Cardinality({k \in 1..Len(s) : s[k] = "$"})

EndsWith(s, p) == Len(s) >= Len(p) /\ SubSeq(s, Len(s) - Len(p) + 1, Len(s)) = p

AllConvertible(as) == \A k \in DOMAIN as : ~MlatexFails(as[k])

Displayed == shown # <<>>

TextA == Str(<<"a">>)

TextB == Str(<<"b">>)

----------------------------------------------------------------------------
(* The properties.                                                         *)

\* C1: for the two text arguments "a" and "b" the displayed string is
\* `$a$ $\, = \,$ $b$` exactly, with nothing after the last `$`.
C1_TwoTextsExact ==
    (Displayed /\ args = <<TextA, TextB>>)
        => shown[1] = <<"$", "a", "$", " ", "$", "\\", ",", " ", "=", " ",
                        "\\", ",", "$", " ", "$", "b", "$">>

\* C2: the trim removes exactly the separator appended after the last term:
\* the number of characters cut equals the length of the text appended after
\* each fragment, so for N >= 1 the displayed string ends with the last
\* fragment.
C2_TrimRemovesSeparator ==
    (Displayed /\ Len(args) >= 1)
        => /\ TrimLen = Len(SepAfter)
           /\ EndsWith(shown[1], Delim(args[Len(args)]))

\* C3: for N >= 1 arguments the displayed string holds the N delimited
\* fragments, one per argument in input order, and exactly N-1
\* equals-separators, each between two consecutive fragments.
C3_FragmentsAndSeparators ==
    (Displayed /\ Len(args) >= 1)
        => LET s == shown[1]
               N == Len(args)
           IN  /\ \A k \in 1..N :
                     SubSeq(s, Offset(args, k) + 1,
                            Offset(args, k) + Len(Delim(args[k]))) = Delim(args[k])
               /\ \A k \in 1..(N - 1) :
                     SubSeq(s, Offset(args, k) + Len(Delim(args[k])) + 2,
                            Offset(args, k + 1) - 1) = EqSep
               /\ Cardinality(Starts(s, EqSep)) = N - 1
               /\ Dollars(s) = 2 * N + 2 * (N - 1)

C3_Witness ==
    /\ pc = "done"
    /\ Displayed
    /\ Len(args) = 3
    /\ args[1] # args[2]
    /\ Cardinality(Starts(shown[1], EqSep)) = 2

\* C4, as stated: for the single text argument "a" the displayed string does
\* not contain the complete fragment `$a$`.
C4_SingleTextCorrupted ==
    (Displayed /\ args = <<TextA>>) => ~Contains(shown[1], <<"$", "a", "$">>)

\* C4, amended: for the single text argument "a" the trim leaves the final
\* fragment whole: the displayed string is `$a$` followed by one space.
C4_SingleTextIntact ==
    (Displayed /\ args = <<TextA>>)
        => /\ Contains(shown[1], <<"$", "a", "$">>)
           /\ shown[1] = <<"$", "a", "$", " ">>

C4_Witness == pc = "done" /\ Displayed /\ args = <<TextA>>

\* C5: with zero arguments dtex raises no error of its own, the trimmed
\* string is empty, and the display facility is invoked exactly once, with
\* the empty string.
C5_ZeroArguments ==
    /\ (pc = "display" /\ args = <<>>) => tex = <<>>
    /\ (pc = "done" /\ args = <<>>)
           => /\ outcome \in {"returned_None", "display_error"}
              /\ convlog = <<>>
              /\ shown = << <<>> >>

C5_Witness ==
    pc = "done" /\ calls >= 1 /\ args = <<>> /\ outcome = "returned_None"
        /\ Len(shown) = 1

\* C6: when the conversion fails on the k-th argument the call ends with that
\* error, the display facility is not invoked, the failed conversion is not
\* retried and no later argument is converted.
C6_ConversionFailure ==
    /\ pc # "idle" => \A k \in 1..(i - 1) : ~MlatexFails(args[k])
    /\ (pc = "done" /\ ~AllConvertible(args)) => outcome = "conversion_error"
    /\ outcome = "conversion_error"
           => /\ pc = "done"
              /\ shown = <<>>
              /\ i \in DOMAIN args
              /\ MlatexFails(args[i])
              /\ convlog = SelectSeq(SubSeq(args, 1, i), NonText)

C6_Witness ==
    /\ outcome = "conversion_error"
    /\ i = 2
    /\ Len(args) = 3
    /\ NonText(args[1])
    /\ NonText(args[3])
    /\ Len(convlog) = 2

\* C7: the display facility is invoked at most once per call, and exactly
\* once when every conversion succeeds; the invocation comes after the last
\* argument and the trim, receives the whole built string, is not repeated
\* when it fails, and dtex returns no value.
C7_DisplayOnce ==
    /\ Len(shown) <= 1
    /\ (pc = "done" /\ AllConvertible(args))
           => /\ Len(shown) = 1
              /\ outcome \in {"returned_None", "display_error"}
    /\ Displayed
           => /\ pc = "done"
              /\ i = Len(args) + 1
              /\ shown[1] = tex
              /\ tex = Trim(Built(args))

C7_Witness ==
    pc = "done" /\ outcome = "display_error" /\ Len(shown) = 1 /\ Len(args) >= 2

\* C8, as stated: a text argument is wrapped in `$...$` as it is, with no
\* conversion call; each non-text argument is converted exactly once, in
\* input order; over a call the conversion calls are as many as the non-text
\* arguments.
C8_EveryNonTextConverted ==
    /\ pc = "loop" => tex = Built(SubSeq(args, 1, i - 1))
    /\ pc = "done"
           => /\ convlog = SelectSeq(args, NonText)
              /\ Len(convlog) = Cardinality({k \in DOMAIN args : NonText(args[k])})

\* C8, amended: a text argument is wrapped in `$...$` as it is, with no
\* conversion call; each non-text argument up to and including the first one
\* whose conversion fails is converted exactly once, in input order, and the
\* fragment of a converted one is `$` + result + `$`; the arguments after a
\* failed conversion are not converted.  Over a call in which no conversion
\* fails the conversion calls are as many as the non-text arguments; over a
\* call in which one fails they are as many as the non-text arguments up to
\* and including the failing one.
C8_TextAsIsOthersConverted ==
    pc # "idle"
        => LET n == IF outcome = "conversion_error" THEN i ELSE i - 1
           IN  /\ convlog = SelectSeq(SubSeq(args, 1, n), NonText)
               /\ pc = "loop" => tex = Built(SubSeq(args, 1, i - 1))
               /\ outcome \in {"returned_None", "display_error"}
                      => /\ convlog = SelectSeq(args, NonText)
                         /\ Len(convlog)
                              = Cardinality({k \in DOMAIN args : NonText(args[k])})
               /\ outcome = "conversion_error"
                      => /\ MlatexFails(args[i])
                         /\ \A k \in 1..(i - 1) : ~MlatexFails(args[k])
                         /\ Len(convlog)
                              = Cardinality({k \in 1..i : NonText(args[k])})

C8_Witness ==
    /\ pc = "done"
    /\ outcome = "conversion_error"
    /\ args = <<TextA, Sym("x*y"), Sym("unsupported")>>
    /\ convlog = <<Sym("x*y"), Sym("unsupported")>>
    /\ tex = Built(<<TextA, Sym("x*y")>>)

\* C9: nothing is held across calls: in whatever call it is made, a call
\* displays the string that its own arguments give when the call is the
\* first one, and every call starts from the empty string.
C9_NothingHeldAcrossCalls ==
    /\ (pc = "loop" /\ i = 1) => tex = <<>>
    /\ Displayed
           => shown[1] = (IF Len(Built(args)) > 10
                          THEN SubSeq(Built(args), 1, Len(Built(args)) - 10)
                          ELSE <<>>)

C9_Witness == calls = 2 /\ pc = "done" /\ Displayed /\ Len(args) >= 1

\* C10: for N >= 1 the trim removes no character of a fragment: 11
\* characters follow each fragment and 10 are cut, so the displayed string is
\* the fragments joined by ` $\, = \,$ ` and then exactly one space, of
\* length sum(len(frag_i) + 2) + 11*N - 10.
C10_OneTrailingSpace ==
    (Displayed /\ Len(args) >= 1)
        => /\ Len(SepAfter) = 11
           /\ shown[1] = Joined(args) \o <<" ">>
           /\ Len(shown[1]) = SumFragLen(args) + 11 * Len(args) - 10

C10_Witness ==
    pc = "done" /\ Displayed /\ Len(args) = 2 /\ NonText(args[2])
        /\ Len(shown[1]) = SumFragLen(args) + 12

====
